---- MODULE Spec2Model ----
(***************************************************************************)
(* Model of the fuzzing orchestrator of src/src/fuzzer/main.py:            *)
(*   main        the supervisor that keeps num_agents sessions in flight,  *)
(*   run_agent   one session: the tool-call protocol with the service,     *)
(*   compile_snippet, bug_found, truncate   the helpers a session calls,   *)
(* together with the things they share: the file system under tmp/ and     *)
(* snippets/, the reported-issues file and the tool-calling service.       *)
(*                                                                         *)
(* A session takes one step per blocking call it makes (a request to the   *)
(* service, a write to the reported-issues file); the supervisor takes one *)
(* step per statement of its loop.  The service and the compiler are       *)
(* stubs: what they answer is drawn from the small sets of a profile that  *)
(* is fixed per session identity in the initial state.                     *)
(***************************************************************************)
EXTENDS Integers, Sequences, FiniteSets, TLC

(***************************************************************************)
(* Bounds of the model.                                                    *)
(***************************************************************************)
\* main.py:640 sets num_agents = 20; the model runs a smaller pool.
num_agents == 2
\* sessions that may end (each one is replaced by a session with a fresh id)
MaxRespawns == 2
\* responses one session may receive from the service
MaxTurns == 4
\* compile dispatches one session may make
MaxSnippets == 2

\* the number of fragments an output given to bug_found on its own is made of
MaxFragments == 2
\* files in the findings directory summarize.py runs over, and runs of its main
MaxFiles == 2
MaxRuns == 2
\* lines of a text given to extract.split_findings
MaxLines == 3

\* main.py:19
RUN_PREFIX_LENGTH == 8

Agents == 1..(num_agents + MaxRespawns)

(***************************************************************************)
(* Text.  Compiler output is a sequence of characters, so that lower() and *)
(* the substring tests of bug_found are computed, not assumed.             *)
(***************************************************************************)
UpperCase == <<"A", "B", "C", "D", "E", "F", "G", "H", "I", "J", "K", "L", "M",
               "N", "O", "P", "Q", "R", "S", "T", "U", "V", "W", "X", "Y", "Z">>
LowerCase == <<"a", "b", "c", "d", "e", "f", "g", "h", "i", "j", "k", "l", "m",
               "n", "o", "p", "q", "r", "s", "t", "u", "v", "w", "x", "y", "z">>

\* str.lower() on one character
LowerChar(c) ==
    IF \E i \in DOMAIN UpperCase : UpperCase[i] = c
    THEN LowerCase[CHOOSE i \in DOMAIN UpperCase : UpperCase[i] = c]
    ELSE c

\* str.lower()
Lower(text) == [i \in DOMAIN text |-> LowerChar(text[i])]

\* needle in text
Contains(text, needle) ==
    \E k \in 0..(Len(text) - Len(needle)) :
        \A j \in 1..Len(needle) : text[k + j] = needle[j]

INTERNAL_ERROR_MARKER ==
    <<"i", "n", "t", "e", "r", "n", "a", "l", " ", "c", "o", "m", "p", "i", "l",
      "e", "r", " ", "e", "r", "r", "o", "r">>
EXPECTED_FAILURE_MARKER ==
    <<"t", "a", "c", "t", " ", "c", "o", "m", "p", "i", "l", "a", "t", "i", "o",
      "n", " ", "f", "a", "i", "l", "e", "d">>

\* default of truncate's length parameter
TRUNCATE_LENGTH == 200

\* a variant of truncate that keeps the whole text (C18)
truncateKeepsAll(text) == text

truncate(text) ==
    IF Len(text) <= TRUNCATE_LENGTH
    THEN text
    ELSE SubSeq(text, 1, TRUNCATE_LENGTH) \o <<".", ".", ".">>

\* a variant of bug_found without lower() (C13)
bug_foundCaseSensitive(output, succeeded) ==
    IF Contains(output, INTERNAL_ERROR_MARKER) THEN TRUE
    ELSE IF ~succeeded /\ ~Contains(output, EXPECTED_FAILURE_MARKER) THEN TRUE
    ELSE FALSE

\* a variant of bug_found that looks for the expected failure first (C14)
bug_foundFailureFirst(output, succeeded) ==
    LET output_lower == Lower(output) IN
    IF ~succeeded /\ Contains(output_lower, EXPECTED_FAILURE_MARKER) THEN FALSE
    ELSE IF Contains(output_lower, INTERNAL_ERROR_MARKER) THEN TRUE
    ELSE ~succeeded

bug_found(output, succeeded) ==
    LET output_lower == Lower(output) IN
    IF Contains(output_lower, INTERNAL_ERROR_MARKER) THEN TRUE
    ELSE IF ~succeeded /\ ~Contains(output_lower, EXPECTED_FAILURE_MARKER) THEN TRUE
    ELSE FALSE

(***************************************************************************)
(* Tool-call payloads.  item.arguments is JSON text; json_loads is          *)
(* json.loads on the payloads the service stub sends: it fails on text     *)
(* that is not JSON, and returns a list or a dict otherwise.               *)
(***************************************************************************)
ARGS_CODE      == "{\"code\": \"contract A {}\"}"
ARGS_TRUNCATED == "{\"code\": \"contr"
ARGS_LIST      == "[\"contract A {}\"]"
ARGS_EMPTY     == "{}"
ARGS_ISSUE     == "{\"reason\": \"crash\", \"found_issue\": true}"
ARGS_NO_ISSUE  == "{\"reason\": \"stuck\", \"found_issue\": false}"

Payloads ==
    {ARGS_CODE, ARGS_TRUNCATED, ARGS_LIST, ARGS_EMPTY, ARGS_ISSUE, ARGS_NO_ISSUE}

\* a parsed value: error (JSONDecodeError), else a dict (is_dict, with its keys
\* and their values) or another JSON value
Parsed(error, is_dict, keys, code, reason, found_issue) ==
    [error |-> error, is_dict |-> is_dict, keys |-> keys, code |-> code,
     reason |-> reason, found_issue |-> found_issue]

json_loads(text) ==
    CASE text = ARGS_CODE      -> Parsed(FALSE, TRUE, {"code"}, "contract A {}", "", FALSE)
      [] text = ARGS_TRUNCATED -> Parsed(TRUE, FALSE, {}, "", "", FALSE)
      [] text = ARGS_LIST      -> Parsed(FALSE, FALSE, {}, "", "", FALSE)
      [] text = ARGS_EMPTY     -> Parsed(FALSE, TRUE, {}, "", "", FALSE)
      [] text = ARGS_ISSUE     ->
            Parsed(FALSE, TRUE, {"reason", "found_issue"}, "", "crash", TRUE)
      [] text = ARGS_NO_ISSUE  ->
            Parsed(FALSE, TRUE, {"reason", "found_issue"}, "", "stuck", FALSE)

\* the dict run_agent falls back to when report_issue's payload is not JSON
REPORT_ARGS_FALLBACK ==
    Parsed(FALSE, TRUE, {"reason", "found_issue"}, "",
           "No reason provided due to JSON error.", FALSE)

\* dict.get(key, default) for the three keys run_agent reads
GetCode(args)       == IF "code" \in args.keys THEN args.code ELSE ""
GetReason(args)     == IF "reason" \in args.keys THEN args.reason ELSE "No reason provided"
GetFoundIssue(args) == IF "found_issue" \in args.keys THEN args.found_issue ELSE FALSE

(***************************************************************************)
(* Output items of a response.  call_id is given by the service when it    *)
(* answers; citations are the filenames of the file_citation annotations   *)
(* of a message's content.                                                 *)
(***************************************************************************)
Item(type, name, arguments, citations) ==
    [type |-> type, name |-> name, call_id |-> <<>>, arguments |-> arguments,
     citations |-> citations]

FunctionCall(name, arguments) == Item("function_call", name, arguments, <<>>)
Message(citations)            == Item("message", "", "", citations)
FileSearchCall                == Item("file_search_call", "", "", <<>>)
Reasoning                     == Item("reasoning", "", "", <<>>)
OtherItem                     == Item("web_search_call", "", "", <<>>)

\* the reference documents a message may cite, in sorted() order
DocFiles == <<"book/contracts.md", "book/expressions.md", "book/types.md">>

(***************************************************************************)
(* What the compiler run of one dispatch produces.                         *)
(***************************************************************************)
TactRun(returncode, stdout, stderr) ==
    [returncode |-> returncode, stdout |-> stdout, stderr |-> stderr]

RUN_OK        == TactRun(0, <<"o", "k">>, <<>>)
RUN_FAILED    ==
    TactRun(1, <<>>,
            <<"T", "a", "c", "t", " ", "c", "o", "m", "p", "i", "l", "a", "t",
              "i", "o", "n", " ", "f", "a", "i", "l", "e", "d">>)
RUN_ICE       ==
    TactRun(1, <<>>,
            <<"I", "n", "t", "e", "r", "n", "a", "l", " ", "C", "o", "m", "p",
              "i", "l", "e", "r", " ", "E", "r", "r", "o", "r">>)

\* a failed run whose error text is longer than truncate keeps
RUN_LONG      ==
    TactRun(1, <<>>, [i \in 1..(TRUNCATE_LENGTH + 5) |-> IF i % 2 = 1 THEN "^" ELSE "~"])

(***************************************************************************)
(* Profiles of the stubbed collaborators: the turns the service may answer *)
(* with, the compiler runs a dispatch may see, the random parts            *)
(* random.choices may draw.                                                *)
(***************************************************************************)
COMPILE_TURN  == <<FunctionCall("compile_snippet", ARGS_CODE)>>
ISSUE_TURN    == <<FunctionCall("report_issue", ARGS_ISSUE)>>
NO_ISSUE_TURN == <<FunctionCall("report_issue", ARGS_NO_ISSUE)>>
LIST_TURN     == <<FunctionCall("report_issue", ARGS_LIST)>>

\* a turn whose first call has a payload cut short, and whose last call comes
\* after the call the session acts on
SKIP_TURN     ==
    <<FunctionCall("compile_snippet", ARGS_TRUNCATED),
      FunctionCall("compile_snippet", ARGS_CODE),
      FunctionCall("report_issue", ARGS_ISSUE)>>
COMPILE_LIST_TURN == <<FunctionCall("compile_snippet", ARGS_LIST)>>

\* a turn whose only call names a function run_agent does not know
UNKNOWN_TURN == <<Reasoning, FunctionCall("run_tests", ARGS_EMPTY)>>

\* turns whose tool call comes after a message that cites reference documents
CITING_COMPILE_TURN ==
    <<Message(<<"book/types.md">>), FunctionCall("compile_snippet", ARGS_CODE)>>
CITING_ISSUE_TURN ==
    <<Message(<<"book/expressions.md", "book/contracts.md", "book/expressions.md">>),
      FunctionCall("report_issue", ARGS_ISSUE)>>

RichTurns ==
    { <<>>, COMPILE_TURN, ISSUE_TURN, NO_ISSUE_TURN, LIST_TURN,
      <<Reasoning, Message(<<>>)>>,
      <<FunctionCall("report_issue", ARGS_TRUNCATED)>>,
      SKIP_TURN, COMPILE_LIST_TURN }

\* The turns the service may answer the n-th request of a session with.
\*   "rich":   any kind of turn, every time;
\*   "worker": a session that compiles twice, then reports an issue, citing
\*             documents in its first and in its reporting turn;
\*   "quick":  a session that compiles once, then reports an issue;
\*   "stuck":  a session that reports its own malfunction, sends a payload that
\*             is no dict, or calls a tool that does not exist, and gets empty
\*             turns from then on;
\*   "silent": the service never answers the opening request.
TurnsOf(profile, n) ==
    CASE profile = "rich"   -> RichTurns
      [] profile = "worker" ->
            CASE n = 1 -> {CITING_COMPILE_TURN}
              [] n = 2 -> {COMPILE_TURN}
              [] OTHER -> {CITING_ISSUE_TURN}
      [] profile = "quick"  -> IF n = 1 THEN {COMPILE_TURN} ELSE {ISSUE_TURN}
      [] profile = "stuck"  ->
            IF n = 1 THEN {NO_ISSUE_TURN, LIST_TURN, UNKNOWN_TURN} ELSE {<<>>}
      [] profile = "silent" -> {}

TactRunsOf(profile) ==
    IF profile = "rich" THEN {RUN_OK, RUN_FAILED, RUN_ICE, RUN_LONG} ELSE {RUN_FAILED}

\* results of random.choices(ascii_lowercase + digits, k=RUN_PREFIX_LENGTH)
RandomPartsOf(profile) ==
    { r \in IF profile = "worker" THEN {"aaaaaaaa", "k3x9q0zz"} ELSE {"aaaaaaaa"} :
        Len(r) = RUN_PREFIX_LENGTH }

(***************************************************************************)
(* State.                                                                  *)
(***************************************************************************)
VARIABLES
    mpc,            \* where main is: "spawn", "wait", "for", "submit", "sleep",
                    \* "shutdown" (leaving the with block), "exit"
    agent_counter,  \* main's agent_counter
    futures,        \* main's futures list; a future is named by its agent id
    done,           \* the part of wait()'s done set the for loop has yet to visit
    interrupt,      \* "none", "caught" (by main's except clause), "uncaught"
    submitted,      \* the agent ids executor.submit was called with, in call order
    sess,           \* per agent id, the locals of its run_agent call and where it is
    service,        \* per agent id, the service's side of its conversation
    fs,             \* the files written under tmp/ and snippets/
    sink,           \* the content of REPORTED_ISSUES_FILE, as the parts written to it
    stub,           \* per agent id, the profile of its stubbed collaborators
    classified,     \* a call of bug_found on its own: its arguments and its result
    summ,           \* summarize.py: the findings directory, out.jsonl, main's locals
    split           \* a call of extract.split_findings: its argument and its result

vars == <<mpc, agent_counter, futures, done, interrupt, submitted, sess, service,
          fs, sink, stub, classified, summ, split>>

main_vars == <<mpc, agent_counter, futures, done, interrupt, submitted>>

NoResponse == [id |-> <<>>, output |-> <<>>]
NoReport   == [agent_id |-> 0, reason |-> "", snippets |-> <<>>, citations |-> <<>>]

\* the locals of a run_agent call that is at pc
Locals(pc) ==
    [pc |-> pc, run_prefix |-> "", snippet_index |-> 0, compiled_snippets |-> <<>>,
     response |-> NoResponse, call_id |-> <<>>, found_issue |-> FALSE,
     report_message |-> NoReport]

\* no call of bug_found on its own is under way
NoCall ==
    [output |-> <<>>, succeeded |-> FALSE, returned |-> FALSE, result |-> FALSE]

NoRequest == [previous_response_id |-> <<>>, input |-> <<>>]

Ended(a)   == sess[a].pc \in {"returned", "raised"}
Running(a) == sess[a].pc \notin {"none", "returned", "raised"}

\* a variant of Submit whose call is queued and never taken by a worker (C4)
SubmitNeverStarts(a) ==
    /\ sess' = sess
    /\ submitted' = Append(submitted, a)

\* ThreadPoolExecutor.submit(run_agent, a): with max_workers = num_agents and at
\* most num_agents unfinished futures, a worker thread takes the call at once
Submit(a) ==
    /\ sess' = [sess EXCEPT ![a] = Locals("start")]
    /\ submitted' = Append(submitted, a)

\* the program's state after construction, with the stubs' profiles given
Constructed(profiles) ==
    /\ mpc = "spawn"
    /\ agent_counter = 0
    /\ futures = <<>>
    /\ done = {}
    /\ interrupt = "none"
    /\ submitted = <<>>
    /\ sess = [a \in Agents |-> Locals("none")]
    /\ service = [a \in Agents |-> [n |-> 0, last |-> NoRequest]]
    /\ fs = {}
    /\ sink = <<>>
    /\ stub = profiles

\* no run of summarize.py: an empty findings directory, no out.jsonl
NoSummarize ==
    [files |-> <<>>, out |-> <<>>, pc |-> "idle", done_ids |-> {}, next |-> 1,
     tasks |-> {}, runs |-> 0, failed |-> FALSE]

\* no call of split_findings is under way
NoSplit == [text |-> "", returned |-> FALSE, blocks |-> <<>>]

InitWith(profiles) ==
    /\ Constructed(profiles)
    /\ classified = NoCall
    /\ summ = NoSummarize
    /\ split = NoSplit

\* the pool: sessions that end, by returning or by raising, one that is stuck and
\* one that hangs in its opening request
PoolProfile(a) ==
    CASE a = 1 -> "worker"
      [] a = 2 -> "stuck"
      [] a = 4 -> "silent"
      [] OTHER -> "quick"

Init == InitWith([a \in Agents |-> PoolProfile(a)])

\* one session sees every kind of turn, the others wait for the service for ever
InitSession == InitWith([a \in Agents |-> IF a = 1 THEN "rich" ELSE "silent"])

(***************************************************************************)
(* main                                                                    *)
(***************************************************************************)
Remove(list, x) == SelectSeq(list, LAMBDA y : y # x)

\* for _ in range(num_agents): agent_counter += 1; submit; futures.append(f)
MainSpawn ==
    /\ mpc = "spawn"
    /\ agent_counter' = agent_counter + 1
    /\ Submit(agent_counter')
    /\ futures' = Append(futures, agent_counter')
    /\ mpc' = IF agent_counter' = num_agents THEN "wait" ELSE "spawn"
    /\ UNCHANGED <<done, interrupt, service, fs, sink, stub, classified, summ, split>>

\* done, not_done = concurrent.futures.wait(futures, return_when=FIRST_COMPLETED)
MainWait ==
    /\ mpc = "wait"
    /\ \E a \in Agents : a \in {futures[i] : i \in DOMAIN futures} /\ Ended(a)
    /\ done' = {a \in {futures[i] : i \in DOMAIN futures} : Ended(a)}
    /\ mpc' = "for"
    /\ UNCHANGED <<agent_counter, futures, interrupt, submitted, sess, service, fs,
                   sink, stub, classified, summ, split>>

\* a variant of MainRemove that leaves agent_counter as it is (C5)
MainRemoveKeepsCounter ==
    /\ mpc = "for"
    /\ \E d \in done :
        /\ futures' = Remove(futures, d)
        /\ done' = done \ {d}
    /\ agent_counter' = agent_counter
    /\ mpc' = "submit"
    /\ UNCHANGED <<interrupt, submitted, sess, service, fs, sink, stub, classified, summ, split>>

\* for d in done: futures.remove(d); agent_counter += 1
MainRemove ==
    /\ mpc = "for"
    /\ \E d \in done :
        /\ futures' = Remove(futures, d)
        /\ done' = done \ {d}
    /\ agent_counter' = agent_counter + 1
    /\ mpc' = "submit"
    /\ UNCHANGED <<interrupt, submitted, sess, service, fs, sink, stub, classified, summ, split>>

\* a variant of MainSubmit that does not append the new future (C3)
MainSubmitForgetsAppend ==
    /\ mpc = "submit"
    /\ Submit(agent_counter)
    /\ futures' = futures
    /\ mpc' = IF done = {} THEN "sleep" ELSE "for"
    /\ UNCHANGED <<agent_counter, done, interrupt, service, fs, sink, stub, classified, summ, split>>

\* a variant of MainSubmit that submits the identity before the new one (C6)
MainSubmitReusesIdentity ==
    /\ mpc = "submit"
    /\ Submit(agent_counter - 1)
    /\ futures' = Append(futures, agent_counter - 1)
    /\ mpc' = IF done = {} THEN "sleep" ELSE "for"
    /\ UNCHANGED <<agent_counter, done, interrupt, service, fs, sink, stub, classified, summ, split>>

\* new_future = executor.submit(run_agent, agent_counter); futures.append(new_future)
MainSubmit ==
    /\ mpc = "submit"
    /\ Submit(agent_counter)
    /\ futures' = Append(futures, agent_counter)
    /\ mpc' = IF done = {} THEN "sleep" ELSE "for"
    /\ UNCHANGED <<agent_counter, done, interrupt, service, fs, sink, stub, classified, summ, split>>

\* time.sleep(1)
MainSleep ==
    /\ mpc = "sleep"
    /\ mpc' = "wait"
    /\ UNCHANGED <<agent_counter, futures, done, interrupt, submitted, sess, service,
                   fs, sink, stub, classified, summ, split>>

\* KeyboardInterrupt raised in the main thread: inside the try block the except
\* clause catches it; in the first for loop it leaves main uncaught.  Either way
\* the with block is left, and ThreadPoolExecutor.__exit__ runs shutdown(wait=True).
KeyboardInterrupt ==
    /\ mpc \in {"spawn", "wait", "for", "submit", "sleep"}
    /\ interrupt' = IF mpc = "spawn" THEN "uncaught" ELSE "caught"
    /\ mpc' = "shutdown"
    /\ UNCHANGED <<agent_counter, futures, done, submitted, sess, service, fs, sink,
                   stub, classified, summ, split>>

\* a variant of MainShutdown that stops the running calls instead of joining
\* them (C7)
MainShutdownCancels ==
    /\ mpc = "shutdown"
    /\ sess' = [a \in Agents |-> IF Running(a) THEN Locals("raised") ELSE sess[a]]
    /\ mpc' = "exit"
    /\ UNCHANGED <<agent_counter, futures, done, interrupt, submitted, service, fs,
                   sink, stub, classified, summ, split>>

\* a variant of MainShutdown that does not join the worker threads, as
\* shutdown(wait=False) would (C28)
MainShutdownNoWait ==
    /\ mpc = "shutdown"
    /\ mpc' = "exit"
    /\ UNCHANGED <<agent_counter, futures, done, interrupt, submitted, sess, service,
                   fs, sink, stub, classified, summ, split>>

\* shutdown(wait=True) joins the worker threads: it returns once no call is running
MainShutdown ==
    /\ mpc = "shutdown"
    /\ \A a \in Agents : ~Running(a)
    /\ mpc' = "exit"
    /\ UNCHANGED <<agent_counter, futures, done, interrupt, submitted, sess, service,
                   fs, sink, stub, classified, summ, split>>

Main ==
    \/ MainSpawn
    \/ MainWait
    \/ MainRemove
    \/ MainSubmit
    \/ MainSleep
    \/ KeyboardInterrupt
    \/ MainShutdown

(***************************************************************************)
(* run_agent: requests and responses                                       *)
(***************************************************************************)
InputItem(type, role, call_id, content, snippet_id, output) ==
    [type |-> type, role |-> role, call_id |-> call_id, content |-> content,
     snippet_id |-> snippet_id, output |-> output]

SystemMessage(content) == InputItem("message", "system", <<>>, content, "", <<>>)
UserMessage(content)   == InputItem("message", "user", <<>>, content, "", <<>>)
\* REPORT_PROMPT_TEMPLATE.format(reason=BUG_REASON_TEMPLATE.format(snippet_id, output))
ReportPrompt(snippet_id, output) ==
    InputItem("message", "user", <<>>, "REPORT_PROMPT_TEMPLATE", snippet_id, output)
FunctionCallOutput(call_id, output) ==
    InputItem("function_call_output", "", call_id, "", "", output)

ContinuationInput == <<UserMessage("CONTINUATION_USER_MESSAGE")>>
OpeningInput ==
    <<SystemMessage("final_system_prompt"), UserMessage("INITIAL_USER_MESSAGE")>>
ACK_OUTPUT == <<"\n\nIssue reported. Stopping agent.\n\n">>

CanRequest(a) == service[a].n < MaxTurns

\* the turns the service may answer agent a's next request with
NextTurns(a) == TurnsOf(stub[a], service[a].n + 1)

\* the response the service creates for agent a's next request, carrying turn
Answer(a, turn) ==
    [id |-> <<a, service[a].n + 1>>,
     output |-> [i \in DOMAIN turn |->
                    IF turn[i].type = "function_call"
                    THEN [turn[i] EXCEPT !.call_id = <<a, service[a].n + 1, i>>]
                    ELSE turn[i]]]

\* a variant of Create that sends every request without previous_response_id (C27)
CreateWithoutToken(a, prev, input) ==
    service' = [service EXCEPT ![a] =
                   [n |-> @.n + 1,
                    last |-> [previous_response_id |-> <<>>, input |-> input]]]

\* client.responses.create(previous_response_id=prev, input=input, ...)
Create(a, prev, input) ==
    service' = [service EXCEPT ![a] =
                   [n |-> @.n + 1,
                    last |-> [previous_response_id |-> prev, input |-> input]]]

\* a session may end only while a fresh identity is left for its replacement
CanEnd == Cardinality({a \in Agents : Ended(a)}) < MaxRespawns

\* a variant of Raise in which the exception takes the other running calls down
\* with it (C16)
RaiseStopsAll(a) ==
    sess' = [b \in Agents |->
                IF b = a \/ Running(b) THEN Locals("raised") ELSE sess[b]]

\* run_agent returns, or leaves by an exception nothing catches: its locals are gone
Return(a) == sess' = [sess EXCEPT ![a] = Locals("returned")]
Raise(a)  == sess' = [sess EXCEPT ![a] = Locals("raised")]

(***************************************************************************)
(* compile_snippet                                                         *)
(***************************************************************************)
Join(dir, filename) == <<dir, filename>>      \* os.path.join
Basename(path)      == path[2]                \* os.path.basename

\* a variant of RunPrefix that leaves the agent id out (C8)
RunPrefixWithoutAgentId(agent_id, random_part) ==
    "agent" \o "_" \o random_part

RunPrefix(agent_id, random_part) ==
    "agent" \o ToString(agent_id) \o "_" \o random_part

SnippetId(run_prefix, snippet_index) ==
    run_prefix \o "_" \o ToString(snippet_index)

\* a file as compile_snippet leaves it: its path and what it holds, the code
\* (f.write(code), shutil.copy) or the compiler's output
\* (outf.write(compiler_output)); of the two texts only the code is kept, the
\* output being what the call returns
CodeFile(path, code) == [path |-> path, holds |-> "code", code |-> code]
OutputFile(path)     == [path |-> path, holds |-> "compiler_output", code |-> ""]

\* a variant of compile_snippet that copies the file to snippets/ whatever the
\* compiler's exit status (C24)
compile_snippetAlwaysCopies(code, run_prefix, snippet_index, run) ==
    LET filename             == SnippetId(run_prefix, snippet_index) \o ".tact"
        tmp_file             == Join("tmp", filename)
        compiler_output_file ==
            Join("tmp", SnippetId(run_prefix, snippet_index) \o ".txt")
        snippet_destination  == Join("snippets", filename)
        succeeded            == run.returncode = 0
        compiler_output      == IF succeeded THEN run.stdout ELSE run.stderr
    IN  [output    |-> compiler_output,
         succeeded |-> succeeded,
         written   |-> {CodeFile(tmp_file, code),
                        OutputFile(compiler_output_file),
                        CodeFile(snippet_destination, code)}]

\* the result of compile_snippet and the files it writes, given the compiler's run
compile_snippet(code, run_prefix, snippet_index, run) ==
    LET filename             == SnippetId(run_prefix, snippet_index) \o ".tact"
        tmp_file             == Join("tmp", filename)
        compiler_output_file ==
            Join("tmp", SnippetId(run_prefix, snippet_index) \o ".txt")
        snippet_destination  == Join("snippets", filename)
        succeeded            == run.returncode = 0
        compiler_output      == IF succeeded THEN run.stdout ELSE run.stderr
    IN  [output    |-> compiler_output,
         succeeded |-> succeeded,
         written   |-> {CodeFile(tmp_file, code),
                        OutputFile(compiler_output_file)}
                       \cup (IF succeeded
                             THEN {CodeFile(snippet_destination, code)}
                             ELSE {})]

(***************************************************************************)
(* run_agent: the scan of a turn's items                                   *)
(***************************************************************************)
\* whether the for loop stops at this item: a compile_snippet call whose payload
\* decodes, or a report_issue call
Acts(item) ==
    /\ item.type = "function_call"
    /\ \/ item.name = "compile_snippet" /\ ~json_loads(item.arguments).error
       \/ item.name = "report_issue"

\* the index of the item the for loop stops at, 0 if it runs to the end
FirstActing(items) ==
    IF \E i \in DOMAIN items : Acts(items[i])
    THEN CHOOSE i \in DOMAIN items :
            Acts(items[i]) /\ \A j \in 1..(i - 1) : ~Acts(items[j])
    ELSE 0

AtItem(a, name) ==
    /\ sess[a].pc = "loop"
    /\ FirstActing(sess[a].response.output) # 0
    /\ sess[a].response.output[FirstActing(sess[a].response.output)].name = name

CurrentItem(a) == sess[a].response.output[FirstActing(sess[a].response.output)]

\* report_args of the report_issue branch
ReportArgs(item) ==
    IF json_loads(item.arguments).error
    THEN REPORT_ARGS_FALLBACK
    ELSE json_loads(item.arguments)

\* sorted(cited_files): the filenames cited by the messages of response.output
Citations(output) ==
    SelectSeq(DocFiles,
              LAMBDA f : \E i \in DOMAIN output :
                  /\ output[i].type = "message"
                  /\ \E j \in DOMAIN output[i].citations : output[i].citations[j] = f)

NO_SNIPPETS_NOTE ==
    [text |-> "No code snippets compiled in this session.", link |-> <<>>]
NO_CITATIONS_NOTE == "No cited documentation files."

\* a variant of formatted_snippets that links every artifact under tmp/ (C23)
formatted_snippetsTmpLinks(compiled_snippets) ==
    IF compiled_snippets # <<>>
    THEN [i \in DOMAIN compiled_snippets |->
             [text |-> Basename(compiled_snippets[i]),
              link |-> Join("tmp", Basename(compiled_snippets[i]))]]
    ELSE <<NO_SNIPPETS_NOTE>>

\* the lines of formatted_snippets: one markdown link per compiled path, or the note
formatted_snippets(compiled_snippets) ==
    IF compiled_snippets # <<>>
    THEN [i \in DOMAIN compiled_snippets |->
             [text |-> Basename(compiled_snippets[i]),
              link |-> compiled_snippets[i]]]
    ELSE <<NO_SNIPPETS_NOTE>>

\* the lines of citations_markdown: one per cited file, or the note
citations_markdown(output) ==
    IF Citations(output) # <<>> THEN Citations(output) ELSE <<NO_CITATIONS_NOTE>>

\* report_message, by its fields
ReportMessage(agent_id, reason, compiled_snippets, output) ==
    [agent_id  |-> agent_id,
     reason    |-> reason,
     snippets  |-> formatted_snippets(compiled_snippets),
     citations |-> citations_markdown(output)]

(***************************************************************************)
(* run_agent: one step per blocking call                                   *)
(***************************************************************************)
\* lines 368-391: the run prefix, the opening request, snippet_index = 0
AgentStart(a) ==
    /\ sess[a].pc = "start"
    /\ CanRequest(a)
    /\ \E random_part \in RandomPartsOf(stub[a]), turn \in NextTurns(a) :
        sess' = [sess EXCEPT ![a] =
                    [@ EXCEPT !.pc = "loop",
                              !.run_prefix = RunPrefix(a, random_part),
                              !.response = Answer(a, turn)]]
    /\ Create(a, <<>>, OpeningInput)
    /\ UNCHANGED <<main_vars, fs, sink, stub, classified, summ, split>>

\* a variant of AgentEmptyTurn that takes an empty turn for a failure (C20)
AgentEmptyTurnEnds(a) ==
    /\ sess[a].pc = "loop"
    /\ sess[a].response.output = <<>>
    /\ Raise(a)
    /\ UNCHANGED <<main_vars, service, fs, sink, stub, classified, summ, split>>

\* lines 397-407: no output items
AgentEmptyTurn(a) ==
    /\ sess[a].pc = "loop"
    /\ sess[a].response.output = <<>>
    /\ CanRequest(a)
    /\ \E turn \in NextTurns(a) :
        sess' = [sess EXCEPT ![a].response = Answer(a, turn)]
    /\ Create(a, sess[a].response.id, ContinuationInput)
    /\ UNCHANGED <<main_vars, fs, sink, stub, classified, summ, split>>

\* a variant of AgentNoCall that asks for the next turn with an empty input (C19)
AgentNoCallEmptyInput(a) ==
    /\ sess[a].pc = "loop"
    /\ sess[a].response.output # <<>>
    /\ FirstActing(sess[a].response.output) = 0
    /\ CanRequest(a)
    /\ \E turn \in NextTurns(a) :
        sess' = [sess EXCEPT ![a].response = Answer(a, turn)]
    /\ Create(a, sess[a].response.id, <<>>)
    /\ UNCHANGED <<main_vars, fs, sink, stub, classified, summ, split>>

\* lines 410-420, 590-630: the for loop ran to its end without a break
AgentNoCall(a) ==
    /\ sess[a].pc = "loop"
    /\ sess[a].response.output # <<>>
    /\ FirstActing(sess[a].response.output) = 0
    /\ CanRequest(a)
    /\ \E turn \in NextTurns(a) :
        sess' = [sess EXCEPT ![a].response = Answer(a, turn)]
    /\ Create(a, sess[a].response.id, ContinuationInput)
    /\ UNCHANGED <<main_vars, fs, sink, stub, classified, summ, split>>

\* lines 422 and 491: .get on a payload that decoded to something other than a dict
\* raises AttributeError, which nothing in run_agent catches
AgentArgsNotDict(a) ==
    /\ \/ AtItem(a, "compile_snippet")
       \/ AtItem(a, "report_issue")
    /\ ~ReportArgs(CurrentItem(a)).is_dict
    /\ CanEnd
    /\ Raise(a)
    /\ UNCHANGED <<main_vars, service, fs, sink, stub, classified, summ, split>>

\* a variant of AgentCompile that answers the first item of the turn instead of
\* the call it compiled (C17)
AgentCompileAnswersFirstItem(a) ==
    /\ AtItem(a, "compile_snippet")
    /\ json_loads(CurrentItem(a).arguments).is_dict
    /\ sess[a].snippet_index < MaxSnippets
    /\ CanRequest(a)
    /\ \E run \in TactRunsOf(stub[a]), turn \in NextTurns(a) :
        LET item          == CurrentItem(a)
            code_snippet  == GetCode(json_loads(item.arguments))
            snippet_index == sess[a].snippet_index + 1
            result        == compile_snippet(code_snippet, sess[a].run_prefix,
                                             snippet_index, run)
            filename      == SnippetId(sess[a].run_prefix, snippet_index) \o ".tact"
            snippet_path  == IF result.succeeded THEN Join("snippets", filename)
                                                 ELSE Join("tmp", filename)
            additional_messages ==
                IF bug_found(result.output, result.succeeded)
                THEN <<ReportPrompt(SnippetId(sess[a].run_prefix, snippet_index),
                                    truncate(result.output))>>
                ELSE <<>>
        IN  /\ fs' = fs \cup {[path |-> w.path, call_id |-> item.call_id,
                                holds |-> w.holds, code |-> w.code] :
                                  w \in result.written}
            /\ Create(a, sess[a].response.id,
                      <<FunctionCallOutput(sess[a].response.output[1].call_id,
                                           result.output)>>
                          \o additional_messages)
            /\ sess' = [sess EXCEPT ![a] =
                           [@ EXCEPT !.snippet_index = snippet_index,
                                     !.compiled_snippets = Append(@, snippet_path),
                                     !.response = Answer(a, turn)]]
    /\ UNCHANGED <<main_vars, sink, stub, classified, summ, split>>

\* lines 422-480: one compile dispatch and the request that returns its result
AgentCompile(a) ==
    /\ AtItem(a, "compile_snippet")
    /\ json_loads(CurrentItem(a).arguments).is_dict
    /\ sess[a].snippet_index < MaxSnippets
    /\ CanRequest(a)
    /\ \E run \in TactRunsOf(stub[a]), turn \in NextTurns(a) :
        LET item          == CurrentItem(a)
            code_snippet  == GetCode(json_loads(item.arguments))
            snippet_index == sess[a].snippet_index + 1
            result        == compile_snippet(code_snippet, sess[a].run_prefix,
                                             snippet_index, run)
            filename      == SnippetId(sess[a].run_prefix, snippet_index) \o ".tact"
            snippet_path  == IF result.succeeded THEN Join("snippets", filename)
                                                 ELSE Join("tmp", filename)
            additional_messages ==
                IF bug_found(result.output, result.succeeded)
                THEN <<ReportPrompt(SnippetId(sess[a].run_prefix, snippet_index),
                                    truncate(result.output))>>
                ELSE <<>>
        IN  /\ fs' = fs \cup {[path |-> w.path, call_id |-> item.call_id,
                                holds |-> w.holds, code |-> w.code] :
                                  w \in result.written}
            /\ Create(a, sess[a].response.id,
                      <<FunctionCallOutput(item.call_id, result.output)>>
                          \o additional_messages)
            /\ sess' = [sess EXCEPT ![a] =
                           [@ EXCEPT !.snippet_index = snippet_index,
                                     !.compiled_snippets = Append(@, snippet_path),
                                     !.response = Answer(a, turn)]]
    /\ UNCHANGED <<main_vars, sink, stub, classified, summ, split>>

\* lines 484-536: the locals of the report_issue branch once report_message is built
AtReport(a) ==
    LET item        == CurrentItem(a)
        report_args == ReportArgs(item)
    IN  [sess[a] EXCEPT
            !.call_id = item.call_id,
            !.found_issue = GetFoundIssue(report_args),
            !.report_message =
                ReportMessage(a, GetReason(report_args), sess[a].compiled_snippets,
                              sess[a].response.output)]

\* the parts in which report_message reaches the file
Part(report_message, part) == [message |-> report_message, part |-> part]

\* a variant of AgentReportNoIssue that writes the report all the same (C2)
AgentReportNoIssueWrites(a) ==
    /\ AtItem(a, "report_issue")
    /\ ReportArgs(CurrentItem(a)).is_dict
    /\ ~AtReport(a).found_issue
    /\ sink' = sink \o <<Part(AtReport(a).report_message, 1),
                         Part(AtReport(a).report_message, 2)>>
    /\ sess' = [sess EXCEPT ![a] = [AtReport(a) EXCEPT !.pc = "ack"]]
    /\ UNCHANGED <<main_vars, service, fs, stub, classified, summ, split>>

\* lines 543-547: found_issue is false, nothing is written
AgentReportNoIssue(a) ==
    /\ AtItem(a, "report_issue")
    /\ ReportArgs(CurrentItem(a)).is_dict
    /\ ~AtReport(a).found_issue
    /\ sess' = [sess EXCEPT ![a] = [AtReport(a) EXCEPT !.pc = "ack"]]
    /\ UNCHANGED <<main_vars, service, fs, sink, stub, classified, summ, split>>

\* a variant of AgentReportWrite that opens the file with "w" (C10)
AgentReportWriteTruncates(a) ==
    /\ AtItem(a, "report_issue")
    /\ ReportArgs(CurrentItem(a)).is_dict
    /\ AtReport(a).found_issue
    /\ sink' = <<Part(AtReport(a).report_message, 1),
                 Part(AtReport(a).report_message, 2)>>
    /\ sess' = [sess EXCEPT ![a] = [AtReport(a) EXCEPT !.pc = "ack"]]
    /\ UNCHANGED <<main_vars, service, fs, stub, classified, summ, split>>

\* lines 539-542: open(REPORTED_ISSUES_FILE, "a"), write, close; the whole text
\* reaches the end of the file in one write
AgentReportWrite(a) ==
    /\ AtItem(a, "report_issue")
    /\ ReportArgs(CurrentItem(a)).is_dict
    /\ AtReport(a).found_issue
    /\ sink' = sink \o <<Part(AtReport(a).report_message, 1),
                         Part(AtReport(a).report_message, 2)>>
    /\ sess' = [sess EXCEPT ![a] = [AtReport(a) EXCEPT !.pc = "ack"]]
    /\ UNCHANGED <<main_vars, service, fs, stub, classified, summ, split>>

\* lines 539-541: the same, when the first write to the file is a short one: the
\* file is opened for append without a lock, so what other sessions write in the
\* meantime lands between the two parts
AgentReportShortWrite(a) ==
    /\ AtItem(a, "report_issue")
    /\ ReportArgs(CurrentItem(a)).is_dict
    /\ AtReport(a).found_issue
    /\ sink' = sink \o <<Part(AtReport(a).report_message, 1)>>
    /\ sess' = [sess EXCEPT ![a] = [AtReport(a) EXCEPT !.pc = "writing"]]
    /\ UNCHANGED <<main_vars, service, fs, stub, classified, summ, split>>

\* line 541, continued: the rest of the text is written
AgentWriteRest(a) ==
    /\ sess[a].pc = "writing"
    /\ sink' = sink \o <<Part(sess[a].report_message, 2)>>
    /\ sess' = [sess EXCEPT ![a].pc = "ack"]
    /\ UNCHANGED <<main_vars, service, fs, stub, classified, summ, split>>

\* line 540: open raises OSError; nothing in run_agent catches it
AgentOpenFails(a) ==
    /\ AtItem(a, "report_issue")
    /\ ReportArgs(CurrentItem(a)).is_dict
    /\ AtReport(a).found_issue
    /\ CanEnd
    /\ Raise(a)
    /\ UNCHANGED <<main_vars, service, fs, sink, stub, classified, summ, split>>

\* line 541: the write of the rest raises OSError
AgentWriteFails(a) ==
    /\ sess[a].pc = "writing"
    /\ CanEnd
    /\ Raise(a)
    /\ UNCHANGED <<main_vars, service, fs, sink, stub, classified, summ, split>>

\* a variant of AgentAcknowledge without the return at line 570 (C1)
AgentAcknowledgeNoReturn(a) ==
    /\ sess[a].pc = "ack"
    /\ CanRequest(a)
    /\ Create(a, sess[a].response.id,
              <<FunctionCallOutput(sess[a].call_id, ACK_OUTPUT)>>)
    /\ \E turn \in NextTurns(a) :
          sess' = [sess EXCEPT ![a] =
                      [@ EXCEPT !.pc = "keep_going", !.response = Answer(a, turn)]]
    /\ UNCHANGED <<main_vars, fs, sink, stub, classified, summ, split>>

\* lines 549-570: the acknowledgement is sent; the session returns if found_issue
AgentAcknowledge(a) ==
    /\ sess[a].pc = "ack"
    /\ CanRequest(a)
    /\ sess[a].found_issue => CanEnd
    /\ Create(a, sess[a].response.id,
              <<FunctionCallOutput(sess[a].call_id, ACK_OUTPUT)>>)
    /\ IF sess[a].found_issue
       THEN Return(a)
       ELSE \E turn \in NextTurns(a) :
               sess' = [sess EXCEPT ![a] =
                           [@ EXCEPT !.pc = "keep_going",
                                     !.response = Answer(a, turn)]]
    /\ UNCHANGED <<main_vars, fs, sink, stub, classified, summ, split>>

\* lines 571-588: the keep-going request, then break with function_call_handled
\* still False
AgentKeepGoing(a) ==
    /\ sess[a].pc = "keep_going"
    /\ CanRequest(a)
    /\ \E turn \in NextTurns(a) :
        sess' = [sess EXCEPT ![a] =
                    [@ EXCEPT !.pc = "unhandled", !.response = Answer(a, turn)]]
    /\ Create(a, sess[a].response.id, ContinuationInput)
    /\ UNCHANGED <<main_vars, fs, sink, stub, classified, summ, split>>

\* lines 620-630: reached by that break; function_call_handled is False
AgentContinue(a) ==
    /\ sess[a].pc = "unhandled"
    /\ CanRequest(a)
    /\ \E turn \in NextTurns(a) :
        sess' = [sess EXCEPT ![a] =
                    [@ EXCEPT !.pc = "loop", !.response = Answer(a, turn)]]
    /\ Create(a, sess[a].response.id, ContinuationInput)
    /\ UNCHANGED <<main_vars, fs, sink, stub, classified, summ, split>>

Agent(a) ==
    \/ AgentStart(a)
    \/ AgentEmptyTurn(a)
    \/ AgentNoCall(a)
    \/ AgentArgsNotDict(a)
    \/ AgentCompile(a)
    \/ AgentReportNoIssue(a)
    \/ AgentReportWrite(a)
    \/ AgentReportShortWrite(a)
    \/ AgentWriteRest(a)
    \/ AgentOpenFails(a)
    \/ AgentWriteFails(a)
    \/ AgentAcknowledge(a)
    \/ AgentKeepGoing(a)
    \/ AgentContinue(a)

Next == Main \/ \E a \in Agents : Agent(a)

Spec == Init /\ [][Next]_vars

SessionSpec == InitSession /\ [][Next]_vars

(***************************************************************************)
(* bug_found on its own: the arguments are drawn in the initial state, the  *)
(* one action is the call.                                                  *)
(***************************************************************************)
\* the pieces the outputs are made of: the two phrases in several letter cases,
\* a phrase cut short, other text
Fragments ==
    { <<>>,
      INTERNAL_ERROR_MARKER,
      RUN_ICE.stderr,
      <<"I", "N", "T", "E", "R", "N", "A", "L", " ", "C", "O", "M", "P", "I", "L",
        "E", "R", " ", "E", "R", "R", "O", "R">>,
      EXPECTED_FAILURE_MARKER,
      RUN_FAILED.stderr,
      <<"i", "n", "t", "e", "r", "n", "a", "l", " ", "c", "o", "m", "p", "i", "l",
        "e", "r", " ", "e", "r", "r", "o">>,
      <<"t", "a", "c", "t", " ", "c", "o", "m", "p", "i", "l", "a", "t", "i", "o",
        "n", "\n", "f", "a", "i", "l", "e", "d">>,
      <<"E", "r", "r", "o", "r", ":", " ">> }

RECURSIVE OutputsOf(_)
OutputsOf(n) ==
    IF n = 0 THEN {<<>>}
    ELSE {o \o f : o \in OutputsOf(n - 1), f \in Fragments}

ClassifierInit ==
    /\ Constructed([a \in Agents |-> "silent"])
    /\ classified \in {[output |-> o, succeeded |-> b, returned |-> FALSE,
                         result |-> FALSE] :
                            o \in OutputsOf(MaxFragments), b \in BOOLEAN}
    /\ summ = NoSummarize
    /\ split = NoSplit

\* bug_found(output, succeeded) is called and returns
BugFoundCall ==
    /\ ~classified.returned
    /\ classified' =
          [classified EXCEPT
              !.returned = TRUE,
              !.result = bug_found(classified.output, classified.succeeded)]
    /\ UNCHANGED <<main_vars, sess, service, fs, sink, stub, summ, split>>

ClassifierNext == BugFoundCall

ClassifierSpec == ClassifierInit /\ [][ClassifierNext]_vars

(***************************************************************************)
(* summarize.py: main(src_dir, out_jsonl), run again and again over one     *)
(* findings directory.  files is the directory as sorted(src.glob("*.md"))  *)
(* yields it, by the text of each file; out is out.jsonl by its records.    *)
(***************************************************************************)
FindingTexts == {"finding A", "finding B"}

\* the name of the i-th file of the directory, in sorted order
MdName(i) == "0000" \o ToString(i - 1) \o ".md"

\* hashlib.sha1(text.encode()).hexdigest(): a digest that tells texts apart
sha1(text) == "sha1(" \o text \o ")"

\* load_done: the ids of the records of out.jsonl
load_done(out) == {out[k].id : k \in DOMAIN out}

Directories ==
    UNION {[1..k -> FindingTexts] : k \in 0..MaxFiles}

SummarizeInit ==
    /\ Constructed([a \in Agents |-> "silent"])
    /\ classified = NoCall
    /\ split = NoSplit
    /\ summ \in {[NoSummarize EXCEPT !.files = d] : d \in Directories}

\* lines 50-56: main starts: done_ids is read from out.jsonl, once
SummarizeStart ==
    /\ summ.pc = "idle"
    /\ summ.runs < MaxRuns
    /\ summ' = [summ EXCEPT !.pc = "scan",
                            !.done_ids = load_done(summ.out),
                            !.next = 1,
                            !.tasks = {}]
    /\ UNCHANGED <<main_vars, sess, service, fs, sink, stub, classified, split>>

\* lines 59-66: one file of the for loop: skipped if its hash is in done_ids,
\* submitted to the pool otherwise
SummarizeScan ==
    /\ summ.pc = "scan"
    /\ summ.next <= Len(summ.files)
    /\ LET text == summ.files[summ.next]
           h    == sha1(text)
       IN  summ' = [summ EXCEPT
                       !.next = @ + 1,
                       !.tasks = IF h \in summ.done_ids
                                 THEN @
                                 ELSE @ \cup {[md_name |-> MdName(summ.next),
                                               hash |-> h]}]
    /\ UNCHANGED <<main_vars, sess, service, fs, sink, stub, classified, split>>

\* line 68: the for loop is over; as_completed(tasks) starts
SummarizeCollect ==
    /\ summ.pc = "scan"
    /\ summ.next > Len(summ.files)
    /\ summ' = [summ EXCEPT !.pc = "collect"]
    /\ UNCHANGED <<main_vars, sess, service, fs, sink, stub, classified, split>>

\* lines 69-79: a future completes with a summary; its record is appended
SummarizeWrite ==
    /\ summ.pc = "collect"
    /\ \E fut \in summ.tasks :
          summ' = [summ EXCEPT
                      !.tasks = @ \ {fut},
                      !.out = Append(@, [id |-> fut.hash, path |-> fut.md_name,
                                         summary |-> "summary"])]
    /\ UNCHANGED <<main_vars, sess, service, fs, sink, stub, classified, split>>

\* lines 70-74: a future completes with an exception; nothing is written
SummarizeFailed ==
    /\ summ.pc = "collect"
    /\ \E fut \in summ.tasks :
          summ' = [summ EXCEPT !.tasks = @ \ {fut}, !.failed = TRUE]
    /\ UNCHANGED <<main_vars, sess, service, fs, sink, stub, classified, split>>

\* lines 68-82: every future has been visited; main returns
SummarizeReturn ==
    /\ summ.pc = "collect"
    /\ summ.tasks = {}
    /\ summ' = [summ EXCEPT !.pc = "idle", !.runs = @ + 1]
    /\ UNCHANGED <<main_vars, sess, service, fs, sink, stub, classified, split>>

SummarizeNext ==
    \/ SummarizeStart
    \/ SummarizeScan
    \/ SummarizeCollect
    \/ SummarizeWrite
    \/ SummarizeFailed
    \/ SummarizeReturn

SummarizeSpec == SummarizeInit /\ [][SummarizeNext]_vars

\* the main thread keeps running: each statement of main that can run does run
FairSpec ==
    /\ Init /\ [][Next]_vars
    /\ WF_vars(MainSpawn) /\ WF_vars(MainWait) /\ WF_vars(MainRemove)
    /\ WF_vars(MainSubmit) /\ WF_vars(MainSleep)

(***************************************************************************)
(* Properties                                                              *)
(***************************************************************************)
InFutures(a)  == \E i \in DOMAIN futures : futures[i] = a
RunningSet    == {a \in Agents : Running(a)}
\* the sessions that have ended and whose future main has not removed yet
Unreplaced    == {a \in Agents : InFutures(a) /\ Ended(a)}
IsPrefix(s, t) == Len(s) <= Len(t) /\ SubSeq(t, 1, Len(s)) = s
\* the positions of the sink that hold part `part` of a record of agent a
PartsOf(a, part, file) ==
    {i \in DOMAIN file : file[i].message.agent_id = a /\ file[i].part = part}
\* whether a report_issue payload asks for a report with found_issue false:
\* it is not JSON, or it is a dict without a true found_issue
AsksNoIssue(arguments) ==
    \/ json_loads(arguments).error
    \/ /\ json_loads(arguments).is_dict
       /\ ~("found_issue" \in json_loads(arguments).keys
            /\ json_loads(arguments).found_issue)
AsksIssue(arguments) ==
    /\ ~json_loads(arguments).error
    /\ json_loads(arguments).is_dict
    /\ "found_issue" \in json_loads(arguments).keys
    /\ json_loads(arguments).found_issue

InLoop == mpc \in {"wait", "for", "submit", "sleep"}

\* C3: at every call of wait the futures list holds exactly num_agents distinct
\* futures; in the loop the list is one short exactly between a removal and the
\* submit paired with it, and submit has been called once for each of the initial
\* futures and once for each removal.
C3_FuturesHoldNumAgentsAtWait ==
    /\ mpc \in {"wait", "for", "sleep"}
       => /\ Len(futures) = num_agents
          /\ Cardinality({futures[i] : i \in DOMAIN futures}) = num_agents
          /\ Len(submitted) = agent_counter
    /\ mpc = "submit"
       => /\ Len(futures) = num_agents - 1
          /\ Len(submitted) = agent_counter - 1

\* C3 witness: main is about to call wait again after it replaced a future
C3_Witness ==
    /\ mpc = "wait"
    /\ agent_counter > num_agents
    /\ Len(futures) = num_agents

C5_CompletedSessionIsReplaced ==
    /\ \A a \in Agents :
          (Ended(a) /\ InFutures(a))
              ~> (interrupt # "none" \/ (~InFutures(a) /\ mpc # "submit"))
    /\ [][\A a \in Agents :
            (InFutures(a) /\ ~InFutures(a)')
                => /\ Ended(a)
                   /\ agent_counter' = agent_counter + 1
                   /\ Len(futures') = Len(futures) - 1
                   /\ submitted' = submitted
                   /\ mpc' = "submit"]_vars
    /\ [][(mpc = "submit" /\ mpc' # mpc /\ interrupt' = "none")
                => /\ sess[agent_counter].pc = "none"
                   /\ sess'[agent_counter].pc = "start"
                   /\ submitted' = Append(submitted, agent_counter)
                   /\ futures' = Append(futures, agent_counter)
                   /\ agent_counter' = agent_counter
                   /\ agent_counter = Len(submitted')]_vars

\* C5 witness: a session that raised and one that returned have both been
\* replaced, and no interrupt arrived
C5_Witness ==
    /\ interrupt = "none"
    /\ mpc # "submit"
    /\ \E a \in Agents : sess[a].pc = "raised" /\ ~InFutures(a)
    /\ \E a \in Agents : sess[a].pc = "returned" /\ ~InFutures(a)
    /\ Len(submitted) = num_agents + 2

\* C6: the identities passed to submit are 1, 2, 3, ... in call order: the n-th
\* session created has identity n, and no identity is used twice.
C6_IdentitiesCountUpFromOne ==
    /\ \A i \in DOMAIN submitted : submitted[i] = i
    /\ \A a \in Agents : sess[a].pc # "none" <=> a \in 1..Len(submitted)

\* C6 witness: replacements have been spawned after sessions completed
C6_Witness ==
    /\ Len(submitted) > num_agents
    /\ \E a \in Agents : Ended(a) /\ ~InFutures(a)
    /\ sess[Len(submitted)].pc # "none"

\* C7: once main has seen a KeyboardInterrupt it calls submit no more, and
\* neither the interrupt nor what main does after it changes anything of a
\* session: the sessions that are running go on by their own steps only.
C7_InterruptStopsSpawningOnly ==
    [][/\ (interrupt = "none" /\ interrupt' # "none")
          => /\ sess' = sess /\ service' = service
             /\ submitted' = submitted /\ futures' = futures
       /\ interrupt # "none"
          => /\ interrupt' = interrupt
             /\ submitted' = submitted
             /\ agent_counter' = agent_counter
             /\ futures' = futures
             /\ \A a \in Agents : sess[a].pc = "none" => sess'[a].pc = "none"
             /\ mpc' # mpc => (sess' = sess /\ service' = service)
      ]_vars

\* C7 witness: after the interrupt a completed session stays unreplaced while
\* another session, in the middle of its conversation, is still running
C7_Witness ==
    /\ interrupt = "caught"
    /\ Unreplaced # {}
    /\ \E a \in Agents : Running(a) /\ service[a].n >= 2
    /\ Len(submitted) = agent_counter

\* C8: no two compile dispatches write the same file: a path under tmp/ or
\* snippets/ belongs to one call.  Within a session the i-th dispatch uses index
\* i, and two sessions never have the same run prefix.
C8_ArtifactPathsAreUnique ==
    /\ \A e1 \in fs, e2 \in fs : e1.path = e2.path => e1.call_id = e2.call_id
    /\ \A a \in Agents :
          /\ Len(sess[a].compiled_snippets) = sess[a].snippet_index
          /\ \A i \in DOMAIN sess[a].compiled_snippets :
                Basename(sess[a].compiled_snippets[i])
                    = SnippetId(sess[a].run_prefix, i) \o ".tact"
    /\ \A a \in Agents, b \in Agents :
          (a # b /\ sess[a].run_prefix # "") => sess[a].run_prefix # sess[b].run_prefix

\* C8 witness: one session has dispatched two compiles and another session one
C8_Witness ==
    \E e1 \in fs, e2 \in fs, e3 \in fs :
        /\ e1.call_id[1] = e2.call_id[1]
        /\ e1.call_id # e2.call_id
        /\ e3.call_id[1] # e1.call_id[1]

\* C9: appends to the reported-issues file are serialized: the text of a report
\* is in the file as one contiguous piece, so the second part of a report
\* directly follows its first part.
C9_ReportsAreContiguous ==
    \A i \in DOMAIN sink :
        sink[i].part = 2
            => /\ i > 1
               /\ sink[i - 1] = Part(sink[i].message, 1)

\* C10: the reported-issues file only grows: every step leaves what it held
\* as a prefix of what it holds.  An append that fails ends its session alone:
\* the file, the other sessions and main are left as they were.
C10_SinkIsAppendOnly ==
    [][/\ IsPrefix(sink, sink')
       /\ \A a \in Agents :
            ( /\ \/ AtItem(a, "report_issue") /\ AsksIssue(CurrentItem(a).arguments)
                 \/ sess[a].pc = "writing"
              /\ sess'[a].pc = "raised" )
            => /\ sink' = sink
               /\ \A b \in Agents \ {a} : sess'[b] = sess[b]
               /\ service' = service
               /\ UNCHANGED main_vars
      ]_vars

\* C10 witness: an append failed after a short write while the file already held
\* another session's report, which is still there
C10_Witness ==
    \E a \in Agents :
        /\ sess[a].pc = "raised"
        /\ Len(sink) >= 3
        /\ sink[Len(sink)].part = 1
        /\ sink[Len(sink)].message.agent_id = a
        /\ sink[1].message.agent_id # a
        /\ sink[2] = Part(sink[1].message, 2)

\* the upper-case form of a lower-case letter, the character itself otherwise
UpperOf(c) ==
    IF \E i \in DOMAIN LowerCase : LowerCase[i] = c
    THEN UpperCase[CHOOSE i \in DOMAIN LowerCase : LowerCase[i] = c]
    ELSE c

\* the reference rule's test: phrase, given in lower case, occurs in output with
\* each of its letters in either case
HasAnyCase(output, phrase) ==
    \E k \in 0..(Len(output) - Len(phrase)) :
        \A j \in 1..Len(phrase) :
            output[k + j] = phrase[j] \/ output[k + j] = UpperOf(phrase[j])

\* C13: bug_found returns for every pair of arguments, and what it returns is the
\* reference rule: true exactly when the output holds "internal compiler error"
\* in any letter case, or succeeded is false and the output does not hold "tact
\* compilation failed" in any letter case.  So it is true whenever the first
\* phrase is there and false for succeeded = true without it.
C13_BugFoundIsTheReferenceRule ==
    /\ ~classified.returned /\ classified # NoCall => ENABLED BugFoundCall
    /\ classified.returned
       => /\ classified.result =
                (\/ HasAnyCase(classified.output, INTERNAL_ERROR_MARKER)
                 \/ /\ ~classified.succeeded
                    /\ ~HasAnyCase(classified.output, EXPECTED_FAILURE_MARKER))
          /\ HasAnyCase(classified.output, INTERNAL_ERROR_MARKER)
                => classified.result
          /\ ( /\ classified.succeeded
               /\ ~HasAnyCase(classified.output, INTERNAL_ERROR_MARKER) )
                => ~classified.result

\* C13 witness: bug_found has returned true for the empty output of a failed run
C13_Witness ==
    /\ classified.returned
    /\ classified.output = <<>>
    /\ ~classified.succeeded
    /\ classified.result

\* C14 as stated: for succeeded = false, bug_found is true when the output lacks
\* "tact compilation failed" and false when it holds it.
C14_FailedRunIsBugIffPhraseIsMissing ==
    (classified.returned /\ ~classified.succeeded)
        => classified.result
              = ~HasAnyCase(classified.output, EXPECTED_FAILURE_MARKER)

\* C14, amended: for succeeded = false, bug_found is true when the output lacks
\* "tact compilation failed"; when the output holds that phrase, bug_found is
\* false only if the output does not hold "internal compiler error" as well, and
\* true if it does.
C14_FailedRunWithPhraseIsBugIffInternalError ==
    (classified.returned /\ ~classified.succeeded)
        => /\ ~HasAnyCase(classified.output, EXPECTED_FAILURE_MARKER)
                => classified.result
           /\ HasAnyCase(classified.output, EXPECTED_FAILURE_MARKER)
                => classified.result
                      = HasAnyCase(classified.output, INTERNAL_ERROR_MARKER)

\* C14 witness: the output of a failed run holds both phrases and bug_found has
\* returned true
C14_Witness ==
    /\ classified.returned
    /\ ~classified.succeeded
    /\ HasAnyCase(classified.output, EXPECTED_FAILURE_MARKER)
    /\ HasAnyCase(classified.output, INTERNAL_ERROR_MARKER)
    /\ classified.result

\* the for loop of a scan looks at item i of the response the session holds:
\* the items up to the one it breaks at, or all of them
Encountered(a, i) ==
    /\ sess[a].pc = "loop"
    /\ i \in DOMAIN sess[a].response.output
    /\ \/ FirstActing(sess[a].response.output) = 0
       \/ i <= FirstActing(sess[a].response.output)

\* a compile_snippet or report_issue call whose payload is not JSON, or is JSON
\* for something other than an object
Malformed(item) ==
    /\ item.type = "function_call"
    /\ item.name \in {"compile_snippet", "report_issue"}
    /\ \/ json_loads(item.arguments).error
       \/ ~json_loads(item.arguments).is_dict

\* C11: a scan that comes across a compile_snippet or report_issue call with a
\* malformed payload does not end the session, neither by a return nor by an
\* exception; and no file is written for a compile_snippet call with such a
\* payload, the scan goes on to the item after it.
C11_MalformedArgumentsNeverEndSession ==
    [][\A a \in Agents :
        \A i \in DOMAIN sess[a].response.output :
            (Encountered(a, i) /\ Malformed(sess[a].response.output[i]))
                => /\ ~Ended(a)'
                   /\ \A e \in fs' \ fs :
                         e.call_id # sess[a].response.output[i].call_id
      ]_vars

\* C12: a session stops executing only in the handling of a report_issue call
\* with found_issue true: whenever run_agent ends, the item it has in hand is
\* such a call; no other kind of turn ends it.
C12_OnlyTrueReportEndsSession ==
    [][\A a \in Agents :
        (Running(a) /\ Ended(a)')
            => /\ sess[a].pc \in {"loop", "writing", "ack"}
               /\ FirstActing(sess[a].response.output) # 0
               /\ CurrentItem(a).name = "report_issue"
               /\ AsksIssue(CurrentItem(a).arguments)
      ]_vars

\* the items of the response the session holds are scanned by the for loop before
\* its next request goes out: the request is sent at the end of the scan (pc
\* "loop"), or acknowledges the report_issue call that scan stopped at (pc "ack")
ScansBeforeRequest(a) == sess[a].pc \in {"loop", "ack"}

\* C15: turns of a session are strictly sequential: it sends a request only when
\* the items of the response it holds have been scanned, the responses to an
\* acknowledgement and to a keep-going request included.
C15_ResponseScannedBeforeNextRequest ==
    [][\A a \in Agents :
        (service[a].n > 0 /\ service'[a].n > service[a].n)
            => ScansBeforeRequest(a)
      ]_vars

\* C16: an exception that leaves run_agent stays in its session: the step that
\* raises changes nothing of main nor of any other session, main's loop goes on
\* (main leaves it on an interrupt only), the session that raised is never run
\* again, and every submit starts an identity no session had before.
C16_RaiseStaysInItsSession ==
    [][/\ \A a \in Agents :
            /\ (Running(a) /\ sess'[a].pc = "raised")
                  => /\ UNCHANGED main_vars
                     /\ \A b \in Agents \ {a} :
                           sess'[b] = sess[b] /\ service'[b] = service[b]
            /\ sess[a].pc = "raised" => sess'[a] = sess[a]
       /\ interrupt' = "none" => mpc' \in {"spawn", "wait", "for", "submit", "sleep"}
       /\ Len(submitted') > Len(submitted)
             => /\ submitted' = Append(submitted, submitted'[Len(submitted')])
                /\ sess[submitted'[Len(submitted')]].pc = "none"
                /\ sess'[submitted'[Len(submitted')]].pc = "start"
      ]_vars

\* C16 witness: a session raised and has been replaced under a new identity,
\* while a session of the initial pool is still running and main is in its loop
C16_Witness ==
    /\ InLoop
    /\ interrupt = "none"
    /\ \E a \in Agents, b \in Agents :
          /\ sess[a].pc = "raised" /\ ~InFutures(a)
          /\ b # a /\ b <= num_agents /\ Running(b) /\ service[b].n >= 1
    /\ Running(Len(submitted))
    /\ Len(submitted) > num_agents

\* item i of the response the session holds is a compile_snippet call
IsCompileCall(a, i) ==
    /\ sess[a].response.output[i].type = "function_call"
    /\ sess[a].response.output[i].name = "compile_snippet"

\* what a run leaves as the compiler's output
OutputOf(run) == IF run.returncode = 0 THEN run.stdout ELSE run.stderr

C18_ReportPromptIffBugFound ==
    [][\A a \in Agents :
        ( /\ AtItem(a, "compile_snippet")
          /\ json_loads(CurrentItem(a).arguments).is_dict
          /\ sess'[a] # sess[a] )
        => LET input        == service'[a].last.input
               output       == input[1].output
               snippet_path ==
                   sess'[a].compiled_snippets[Len(sess'[a].compiled_snippets)]
               succeeded    == snippet_path[1] = "snippets"
           IN  /\ \E run \in TactRunsOf(stub[a]) :
                     /\ output = OutputOf(run)
                     /\ succeeded = (run.returncode = 0)
               /\ Len(input) = IF bug_found(output, succeeded) THEN 2 ELSE 1
               /\ Len(input) = 2
                  => /\ input[2].role = "user"
                     /\ input[2].content = "REPORT_PROMPT_TEMPLATE"
                     /\ input[2].snippet_id
                           = SnippetId(sess[a].run_prefix, sess'[a].snippet_index)
                     /\ input[2].output =
                           IF Len(output) <= TRUNCATE_LENGTH
                           THEN output
                           ELSE SubSeq(output, 1, TRUNCATE_LENGTH) \o <<".", ".", ".">>
                     /\ Len(input[2].output) <= TRUNCATE_LENGTH + 3
      ]_vars

\* C18 witness: the compiler's output was longer than 200 characters; the request
\* carries it whole as the tool output and cut, with "..." added, in the prompt
C18_Witness ==
    \E a \in Agents :
        /\ Len(service[a].last.input) = 2
        /\ service[a].last.input[1].type = "function_call_output"
        /\ Len(service[a].last.input[1].output) > TRUNCATE_LENGTH
        /\ Len(service[a].last.input[2].output) = TRUNCATE_LENGTH + 3
        /\ service[a].last.input[2].snippet_id # ""

\* C19: every request of a session after its opening request is sent for the
\* response the session holds and carries either the tool output for a call of
\* that response as its first input item, or the continuation message; its input
\* is never empty.  A response that has items, none of them a call the session
\* acts on, is followed by one request, whose input is the continuation message.
C19_RequestCarriesToolOutputOrContinuation ==
    [][\A a \in Agents :
        /\ (service[a].n > 0 /\ service'[a] # service[a])
           => /\ service'[a].n = service[a].n + 1
              /\ service'[a].last.previous_response_id = sess[a].response.id
              /\ service'[a].last.input # <<>>
              /\ \/ service'[a].last.input = ContinuationInput
                 \/ /\ service'[a].last.input[1].type = "function_call_output"
                    /\ \E i \in DOMAIN sess[a].response.output :
                          /\ sess[a].response.output[i].type = "function_call"
                          /\ sess[a].response.output[i].call_id
                                = service'[a].last.input[1].call_id
        /\ ( /\ sess[a].pc = "loop"
             /\ sess[a].response.output # <<>>
             /\ FirstActing(sess[a].response.output) = 0
             /\ sess'[a] # sess[a] )
           => /\ service'[a].n = service[a].n + 1
              /\ service'[a].last.input = ContinuationInput
              /\ sess'[a].pc = "loop"
              /\ sess'[a].response.id = <<a, service'[a].n>>
              /\ fs' = fs /\ sink' = sink
      ]_vars

\* C19 witness: the first turn of a session had a reasoning item and no call, and
\* the session has sent the continuation message as its second request
C19_Witness ==
    \E a \in Agents :
        /\ stub[a] = "stuck"
        /\ sess[a].pc = "loop"
        /\ service[a].n = 2
        /\ service[a].last.previous_response_id = <<a, 1>>
        /\ service[a].last.input = ContinuationInput

\* C20: when the response a session holds has no items, the session's step is
\* one request, sent for that response, whose input is the continuation message;
\* the step writes no file, appends nothing to the reported-issues file, and
\* leaves the session at the top of its loop with the next response, however
\* many empty turns came before.
C20_EmptyTurnGetsContinuation ==
    [][\A a \in Agents :
        ( /\ sess[a].pc = "loop"
          /\ sess[a].response.output = <<>>
          /\ sess'[a] # sess[a] )
        => /\ service'[a].n = service[a].n + 1
           /\ service'[a].last =
                 [previous_response_id |-> sess[a].response.id,
                  input |-> ContinuationInput]
           /\ fs' = fs
           /\ sink' = sink
           /\ sess'[a] = [sess[a] EXCEPT !.response = sess'[a].response]
           /\ sess'[a].response.id = <<a, service'[a].n>>
      ]_vars

\* C20 witness: the second turn of a session was empty, the session has sent the
\* continuation message for it, and the third turn is empty again
C20_Witness ==
    \E a \in Agents :
        /\ stub[a] = "stuck"
        /\ sess[a].pc = "loop"
        /\ service[a].n = 3
        /\ service[a].last.previous_response_id = <<a, 2>>
        /\ service[a].last.input = ContinuationInput
        /\ sess[a].response = [id |-> <<a, 3>>, output |-> <<>>]

\* the tool output that acknowledges a report_issue call is the last request
\* agent a sent
AckWasSent(a) ==
    /\ service[a].n > 0
    /\ Len(service[a].last.input) = 1
    /\ service[a].last.input[1].type = "function_call_output"
    /\ service[a].last.input[1].output = ACK_OUTPUT

\* C21: after a report_issue call with found_issue false the session sends the
\* acknowledgement, then exactly one keep-going directive, and next it scans the
\* response to that directive: the request that follows the acknowledgement is
\* the directive and leaves the session at the top of its loop with that
\* response in hand, and no request is sent on top of the directive's response
\* before it has been scanned.
C21_OneKeepGoingThenItsResponseIsProcessed ==
    [][\A a \in Agents :
        /\ (AckWasSent(a) /\ Running(a)' /\ service'[a].n > service[a].n)
              => /\ service'[a].last.input = ContinuationInput
                 /\ sess'[a].pc = "loop"
                 /\ sess'[a].response.id = <<a, service'[a].n>>
        /\ (service[a].n > 0 /\ service[a].last.input = ContinuationInput
                /\ service'[a].n > service[a].n)
              => sess[a].pc = "loop"
      ]_vars

\* the service's answers to agent a are fixed by its profile: one turn at most
\* for each request
Scripted(a) ==
    \A k \in 1..MaxTurns : Cardinality(TurnsOf(stub[a], k)) <= 1

\* the reference documents cited by the messages of the responses agent a has
\* received so far, when its service is scripted
CitedSoFar(a) ==
    { f \in {DocFiles[i] : i \in DOMAIN DocFiles} :
        \E k \in 1..service[a].n : \E turn \in TurnsOf(stub[a], k) :
            \E i \in DOMAIN turn :
                /\ turn[i].type = "message"
                /\ \E j \in DOMAIN turn[i].citations : turn[i].citations[j] = f }

\* C22: the citations of a report body are the distinct reference documents
\* cited in any message of the session's conversation up to the report, earlier
\* turns included, each once and in sorted order; the list is empty (the "no
\* cited documentation" note) only when no message of the conversation cited
\* anything.
C22_CitationsCoverTheConversation ==
    \A a \in Agents :
        (sess[a].pc \in {"writing", "ack"} /\ Scripted(a) /\ service[a].n <= MaxTurns)
            => sess[a].report_message.citations
                   = IF CitedSoFar(a) = {}
                     THEN <<NO_CITATIONS_NOTE>>
                     ELSE SelectSeq(DocFiles, LAMBDA f : f \in CitedSoFar(a))

\* the compile dispatches agent a has made, by the call ids they answered
Dispatches(a) == {e.call_id : e \in {f \in fs : f.call_id[1] = a}}

\* the paths written so far
Written == {e.path : e \in fs}

\* C23: at every report_issue call the report body lists the artifacts of all
\* dispatches the session has made so far, one entry per dispatch in dispatch
\* order: as many entries as the snippet counter says and as dispatches were
\* made, entry i being the snippets/ path of snippet i if that dispatch wrote the
\* confirmed copy and its tmp/ path otherwise; the "no code snippets compiled"
\* note stands there exactly when no dispatch was made.
C23_ReportListsEveryArtifactInOrder ==
    \A a \in Agents :
        sess[a].pc \in {"writing", "ack"}
            => LET m    == sess[a].report_message
                   made == sess[a].snippet_index
                   file(i) == SnippetId(sess[a].run_prefix, i) \o ".tact"
               IN  /\ Cardinality(Dispatches(a)) = made
                   /\ (m.snippets = <<NO_SNIPPETS_NOTE>>) <=> (made = 0)
                   /\ made > 0 =>
                         /\ Len(m.snippets) = made
                         /\ \A i \in 1..made :
                               /\ Join("tmp", file(i)) \in Written
                               /\ m.snippets[i].text = file(i)
                               /\ m.snippets[i].link =
                                     IF Join("snippets", file(i)) \in Written
                                     THEN Join("snippets", file(i))
                                     ELSE Join("tmp", file(i))

\* C23 witness: a report is being made by a session whose first dispatch
\* succeeded and whose second failed
C23_Witness ==
    \E a \in Agents :
        /\ sess[a].pc \in {"writing", "ack"}
        /\ Len(sess[a].report_message.snippets) = 2
        /\ sess[a].report_message.snippets[1].link[1] = "snippets"
        /\ sess[a].report_message.snippets[2].link[1] = "tmp"

\* What one compile_snippet call of agent a does, seen from outside, for the one
\* compiler run it makes: the files it writes, and the result it returns (the
\* output goes back as the call's tool output, succeeded decides the path that
\* is kept).  with_output_file tells whether tmp/<id>.txt is among the files.
CompileEffects(a, run, with_output_file) ==
    LET id       == SnippetId(sess[a].run_prefix, sess'[a].snippet_index)
        code     == GetCode(json_loads(CurrentItem(a).arguments))
        zero     == run.returncode = 0
        output   == IF zero THEN run.stdout ELSE run.stderr
        new      == {[path |-> e.path, holds |-> e.holds, code |-> e.code] :
                        e \in fs' \ fs}
        kept     == sess'[a].compiled_snippets[sess'[a].snippet_index]
    IN  /\ new = {CodeFile(Join("tmp", id \o ".tact"), code)}
                 \cup (IF zero
                       THEN {CodeFile(Join("snippets", id \o ".tact"), code)}
                       ELSE {})
                 \cup (IF with_output_file
                       THEN {OutputFile(Join("tmp", id \o ".txt"))}
                       ELSE {})
        /\ service'[a].last.input[1] = FunctionCallOutput(CurrentItem(a).call_id, output)
        /\ kept[1] = (IF zero THEN "snippets" ELSE "tmp")

\* a step in which agent a makes a compile dispatch
Dispatching(a) == sess'[a].snippet_index = sess[a].snippet_index + 1

\* C24 as stated: a compile_snippet call runs the compiler once and writes the
\* source text to tmp/<id>.tact, the confirmed copy snippets/<id>.tact iff the
\* compiler exits with status zero, and no other file; it returns the standard
\* output with succeeded true on zero exit, the error stream with succeeded
\* false on any other exit.
C24_WritesWorkingCopyAndConfirmedCopyOnly ==
    [][\A a \in Agents :
        Dispatching(a)
            => \E run \in TactRunsOf(stub[a]) : CompileEffects(a, run, FALSE)
      ]_vars

\* C24, amended: the same, with a third file: the compiler's output is always
\* written to tmp/<id>.txt as well, and nothing else is written.
C24_WritesWorkingCopyOutputFileAndConfirmedCopy ==
    [][/\ \A a \in Agents :
            Dispatching(a)
                => \E run \in TactRunsOf(stub[a]) : CompileEffects(a, run, TRUE)
       /\ fs' # fs => \E a \in Agents : Dispatching(a)
      ]_vars

\* C24 witness: one dispatch succeeded and left a confirmed copy, another
\* failed and left its working copy and its output file only
C24_Witness ==
    \E e1 \in fs, e2 \in fs :
        /\ e1.path[1] = "snippets"
        /\ e2.holds = "compiler_output"
        /\ \A e3 \in fs : e3.call_id = e2.call_id => e3.path[1] = "tmp"

\* "".join(strs)
RECURSIVE Concat(_)
Concat(strs) == IF strs = <<>> THEN "" ELSE Head(strs) \o Concat(Tail(strs))

\* "\n".join(lines)
JoinLines(lines) ==
    IF lines = <<>>
    THEN ""
    ELSE lines[1] \o Concat([i \in 1..(Len(lines) - 1) |-> "\n" \o lines[i + 1]])

\* needle in text, for str values
InText(needle, text) ==
    \E k \in 0..(Len(text) - Len(needle)) : SubSeq(text, k + 1, k + Len(needle)) = needle

\* the text of report_message: the f-string of lines 531-536
ReportText(m) ==
    LET snippet_line(s) ==
            IF s = NO_SNIPPETS_NOTE
            THEN s.text
            ELSE "- [" \o s.text \o "](" \o s.link[1] \o "/" \o s.link[2] \o ")"
        citation_line(c) == IF c = NO_CITATIONS_NOTE THEN c ELSE "- " \o c
    IN  "\n\n## Reported Issue by Agent " \o ToString(m.agent_id) \o "\n\n"
        \o "**Issue:**\n" \o m.reason \o "\n\n"
        \o "**Compiled Code Snippets:**\n"
        \o JoinLines([i \in DOMAIN m.snippets |-> snippet_line(m.snippets[i])])
        \o "\n\n"
        \o "**Cited Documentation Files:**\n"
        \o JoinLines([i \in DOMAIN m.citations |-> citation_line(m.citations[i])])
        \o "\n\n"

\* agent a has written a record for a report_issue call with found_issue true
\* that answered the report directive of its latest dispatch
ReportedOnDirective(a) ==
    /\ sess[a].pc = "ack"
    /\ sess[a].found_issue
    /\ \E k \in DOMAIN sink : sink[k].message = sess[a].report_message
    /\ Len(service[a].last.input) = 2
    /\ service[a].last.input[2].content = "REPORT_PROMPT_TEMPLATE"

\* C25: when a dispatch returned a failed result classified as a bug and the
\* service then sends a report_issue call with found_issue true, the record
\* written to the sink contains the identifier of that snippet and the
\* truncated compiler output that the report directive carried, whatever the
\* reason text of the call.
C25_RecordHoldsSnippetIdAndCompilerOutput ==
    \A a \in Agents :
        ReportedOnDirective(a)
            => LET directive == service[a].last.input[2]
                   text      == ReportText(sess[a].report_message)
               IN  /\ InText(directive.snippet_id, text)
                   /\ InText(Concat(directive.output), text)

\* C26: the service is never left with an unanswered tool call: whenever a
\* session sends a request on top of a response, every function_call item of
\* that response (one whose payload does not decode, one that names an unknown
\* function, one that follows the call acted on) is answered in that request by
\* a tool output under its call id.
C26_EveryToolCallIsAnsweredInTheNextRequest ==
    [][\A a \in Agents :
        (service[a].n > 0 /\ service'[a].n > service[a].n)
            => LET output == sess[a].response.output
                   input  == service'[a].last.input
               IN  \A i \in DOMAIN output :
                      output[i].type = "function_call"
                          => \E j \in DOMAIN input :
                                /\ input[j].type = "function_call_output"
                                /\ input[j].call_id = output[i].call_id
      ]_vars

\* C27: every request a session sends after its opening request carries as
\* previous_response_id the id of the response the session received last, which
\* is the service's answer to that session's preceding request: so no id is the
\* token of two requests and none comes from another session.  The opening
\* request carries no token.
C27_TokenIsTheLatestResponseOfTheSession ==
    [][\A a \in Agents :
        service'[a].n > service[a].n
            => /\ service'[a].n = service[a].n + 1
               /\ IF service[a].n = 0
                  THEN /\ service'[a].last.previous_response_id = <<>>
                       /\ service'[a].last.input = OpeningInput
                  ELSE /\ service'[a].last.previous_response_id = sess[a].response.id
                       /\ sess[a].response.id = <<a, service[a].n>>
                       /\ service[a].last.previous_response_id
                              # service'[a].last.previous_response_id
      ]_vars

\* C27 witness: two sessions are past their opening request, one of them at its
\* fourth request, sent on the id of its third response
C27_Witness ==
    \E a \in Agents, b \in Agents :
        /\ a # b
        /\ service[a].n = 4
        /\ service[a].last.previous_response_id = <<a, 3>>
        /\ service[b].n >= 2
        /\ service[b].last.previous_response_id = <<b, service[b].n - 1>>

\* C28: after an interrupt main leaves the with block, emits its final notice
\* and returns only once every session that was in flight has finished: while
\* one of them is running main stays in the executor's shutdown, and when main
\* is out, every session that was ever submitted has ended.  So main gets out
\* only if each of these sessions terminates.
C28_MainReturnsOnlyAfterAllSessionsFinished ==
    [][/\ (mpc = "shutdown" /\ \E a \in Agents : Running(a)) => mpc' = "shutdown"
       /\ mpc' = "exit"
             => /\ interrupt' # "none"
                /\ \A a \in Agents :
                      (\E i \in DOMAIN submitted' : submitted'[i] = a) => Ended(a)'
                /\ \A a \in Agents : ~Running(a)'
      ]_vars

\* C28 witness: main is out after an interrupt its except clause caught, and
\* among the sessions it left unreplaced one returned after a report and one
\* ended by an exception
C28_Witness ==
    /\ mpc = "exit"
    /\ interrupt = "caught"
    /\ \E a \in Unreplaced, b \in Unreplaced :
          /\ sess[a].pc = "returned"
          /\ sess[b].pc = "raised"

\* C29: summarize.py is idempotent against out.jsonl: no two records of out.jsonl
\* share an id, a finding whose SHA-1 is recorded is not summarised or written
\* again (no pending task carries a recorded hash), and after any number of runs
\* in which every summarise call succeeded out.jsonl holds one record for each
\* distinct hash of the files of the directory, identical files included.
C29_OneRecordPerDistinctHash ==
    LET hashes == {sha1(summ.files[i]) : i \in DOMAIN summ.files}
    IN  /\ \A j \in DOMAIN summ.out, k \in DOMAIN summ.out :
              j # k => summ.out[j].id # summ.out[k].id
        /\ \A fut \in summ.tasks : fut.hash \notin load_done(summ.out)
        /\ (summ.pc = "idle" /\ summ.runs >= 1 /\ ~summ.failed)
              => /\ load_done(summ.out) = hashes
                 /\ Len(summ.out) = Cardinality(hashes)

(***************************************************************************)
(* extract.py: split_findings(text), on texts put together from pieces.    *)
(***************************************************************************)
CharAt(s, i) == SubSeq(s, i, i)

\* what \s matches, among the characters of the texts drawn here
IsSpace(c) == c \in {" ", "\t", "\n", "\r"}

\* what \w matches
IsWordChar(c) ==
    \/ \E i \in DOMAIN UpperCase : UpperCase[i] = c \/ LowerCase[i] = c
    \/ c \in {"0", "1", "2", "3", "4", "5", "6", "7", "8", "9", "_"}

\* str.lower() on a str
LowerStr(s) == Concat([i \in 1..Len(s) |-> LowerChar(CharAt(s, i))])

\* s.strip() is not empty
Stripped(s) == \E i \in 1..Len(s) : ~IsSpace(CharAt(s, i))

HDR_PHRASE == "Reported Issue by Agent"

\* HDR.match(line), HDR = re.compile(r"^##\s+Reported Issue by Agent\b", re.I)
HDR_match(line) ==
    /\ Len(line) >= 2
    /\ SubSeq(line, 1, 2) = "##"
    /\ \E k \in 3..Len(line) :
          LET end == k + Len(HDR_PHRASE)
          IN  /\ \A j \in 3..k : IsSpace(CharAt(line, j))
              /\ end <= Len(line)
              /\ LowerStr(SubSeq(line, k + 1, end)) = LowerStr(HDR_PHRASE)
              /\ end = Len(line) \/ ~IsWordChar(CharAt(line, end + 1))

\* text.splitlines(keepends=True), for texts whose only line boundary is "\n"
RECURSIVE SplitLinesFrom(_, _, _)
SplitLinesFrom(text, start, i) ==
    IF i > Len(text)
    THEN IF start > Len(text) THEN <<>> ELSE <<SubSeq(text, start, Len(text))>>
    ELSE IF CharAt(text, i) = "\n"
         THEN <<SubSeq(text, start, i)>> \o SplitLinesFrom(text, i + 1, i + 1)
         ELSE SplitLinesFrom(text, start, i + 1)

splitlines(text) == SplitLinesFrom(text, 1, 1)

\* _body_has_content(lines): a line after the first is not only whitespace
_body_has_content(lines) ==
    \E i \in 2..Len(lines) : Stripped(lines[i])

\* the for loop of split_findings from line i on, with blocks and cur as they are
RECURSIVE SplitFrom(_, _, _, _)
SplitFrom(lines, i, blocks, cur) ==
    IF i > Len(lines)
    THEN IF cur # <<>> /\ _body_has_content(cur)
         THEN Append(blocks, Concat(cur))
         ELSE blocks
    ELSE IF HDR_match(lines[i])
         THEN SplitFrom(lines, i + 1,
                        IF cur # <<>> /\ _body_has_content(cur)
                        THEN Append(blocks, Concat(cur))
                        ELSE blocks,
                        <<lines[i]>>)
         ELSE SplitFrom(lines, i + 1, blocks, Append(cur, lines[i]))

split_findings(text) == SplitFrom(splitlines(text), 1, <<>>, <<>>)

\* the pieces the texts are put together from: headers as the fuzzer writes them
\* and as HDR lets them be, lines that only look like one, blank and other lines,
\* and a piece that ends no line
Pieces ==
    { "## Reported Issue by Agent 1\n",
      "##\t reported ISSUE by agent\n",
      "## Reported Issue by Agents\n",
      "\n",
      " \t\n",
      "**Issue:**\n",
      "crash" }

RECURSIVE TextsOf(_)
TextsOf(n) ==
    IF n = 0 THEN {""}
    ELSE LET shorter == TextsOf(n - 1)
         IN  shorter \cup {t \o p : t \in shorter, p \in Pieces}

SplitInit ==
    /\ Constructed([a \in Agents |-> "silent"])
    /\ classified = NoCall
    /\ summ = NoSummarize
    /\ split \in {[NoSplit EXCEPT !.text = t] : t \in TextsOf(MaxLines)}

\* split_findings(text) is called and returns
SplitCall ==
    /\ ~split.returned
    /\ split' = [split EXCEPT !.returned = TRUE,
                              !.blocks = split_findings(split.text)]
    /\ UNCHANGED <<main_vars, sess, service, fs, sink, stub, classified, summ>>

SplitNext == SplitCall

SplitSpec == SplitInit /\ [][SplitNext]_vars

\* the lines of the block that the header at line h of lines opens: up to the
\* next header line, or to the end
BlockAt(lines, h) ==
    LET later == {i \in (h + 1)..Len(lines) : HDR_match(lines[i])}
        last  == IF later = {} THEN Len(lines)
                 ELSE (CHOOSE i \in later : \A j \in later : i <= j) - 1
    IN  SubSeq(lines, h, last)

\* the blocks that open with a header line and have a body that is not only
\* whitespace, in the order of the text
Findings(text) ==
    LET lines == splitlines(text)
        kept  == SelectSeq([i \in 1..Len(lines) |-> i],
                           LAMBDA h : /\ HDR_match(lines[h])
                                      /\ \E i \in 2..Len(BlockAt(lines, h)) :
                                            Stripped(BlockAt(lines, h)[i]))
    IN  [k \in DOMAIN kept |-> Concat(BlockAt(lines, kept[k]))]

\* C30: for every text, each block split_findings returns begins with a
\* "## Reported Issue by Agent" header line and has a non-blank line after it;
\* the blocks are, in input order, the header-opened blocks of the text except
\* those whose body is only whitespace; text before the first header is never
\* returned as a finding.
C30_BlocksAreTheHeaderOpenedFindings ==
    split.returned
        => /\ \A k \in DOMAIN split.blocks :
                 LET lines == splitlines(split.blocks[k])
                 IN  /\ HDR_match(lines[1])
                     /\ \E i \in 2..Len(lines) : Stripped(lines[i])
           /\ split.blocks = Findings(split.text)

====
